---- MODULE Spec2Model ----
(***************************************************************************)
(* Model of controllers/git_tekton_resources_renovater.go: the             *)
(* GitTektonResourcesRenovater reconciler (Reconcile, generateConfigJS,    *)
(* CreateRenovaterJob) together with the cluster store it writes to.       *)
(*                                                                         *)
(* Strings whose characters the code inspects (environment values, Git     *)
(* URLs, the application id) are sequences of one-character strings; all   *)
(* other strings are opaque TLA+ strings.  Durations are in seconds.       *)
(***************************************************************************)
EXTENDS Integers, Sequences, FiniteSets, TLC

\* ------------------------------------------------------------------ bounds
MaxInst == 3          \* installations returned by the directory
MaxRepos == 2         \* repositories visible to one installation
MaxComponents == 2    \* component records in the store
MaxEnvLen == 3        \* length of RENOVATE_INSTALLATIONS_PER_JOB
MaxClock == 1         \* largest Unix second time.Now() may return
MaxEvents == 2        \* watch events delivered to the predicates

\* --------------------------------------------------------------- constants
Hour == 3600
TimeToLiveOfJob == 24 * Hour
NextReconcile == 10 * Hour
InstallationsPerJob == 20
DefaultRenovateImageUrl == "quay.io/redhat-appstudio/renovate:34.154-slim"
DefaultRenovateMatchPattern == "^quay.io/redhat-appstudio-tekton-catalog/"
buildServiceNamespaceName == "build-service"
buildPipelineSelectorResourceName == "build-pipeline-selector"
PipelinesAsCodeSecretName == "pipelines-as-code-secret"

Procs == {"r1", "r2"}
NoErr == "nil"
Digits == {"0", "1", "2", "3", "4", "5", "6", "7", "8", "9"}

\* ---------------------------------------------------------- string helpers
Min(a, b) == IF a < b THEN a ELSE b

DigitChar(d) ==
  CASE d = 0 -> "0" [] d = 1 -> "1" [] d = 2 -> "2" [] d = 3 -> "3"
    [] d = 4 -> "4" [] d = 5 -> "5" [] d = 6 -> "6" [] d = 7 -> "7"
    [] d = 8 -> "8" [] d = 9 -> "9"

DigitVal(c) ==
  CASE c = "0" -> 0 [] c = "1" -> 1 [] c = "2" -> 2 [] c = "3" -> 3
    [] c = "4" -> 4 [] c = "5" -> 5 [] c = "6" -> 6 [] c = "7" -> 7
    [] c = "8" -> 8 [] c = "9" -> 9

\* fmt.Sprint / %d of a non-negative integer
RECURSIVE Sprint(_)
Sprint(n) == IF n < 10 THEN DigitChar(n)
             ELSE Sprint(n \div 10) \o DigitChar(n % 10)

\* strconv.Atoi on a string already known to be all digits
RECURSIVE Atoi(_)
Atoi(s) == IF s = <<>> THEN 0
           ELSE 10 * Atoi(SubSeq(s, 1, Len(s) - 1)) + DigitVal(s[Len(s)])

\* regexp `^\d{1,2}$`
MatchesOneOrTwoDigits(s) ==
  /\ Len(s) >= 1
  /\ Len(s) <= 2
  /\ \A k \in 1..Len(s) : s[k] \in Digits

\* strconv.ParseInt(s, 10, 64) succeeds: optional sign, then digits
\* (the application ids of the model are far below 2^63)
ParseIntOk(s) ==
  LET body == IF s # <<>> /\ s[1] \in {"+", "-"} THEN Tail(s) ELSE s
  IN  /\ body # <<>>
      /\ \A k \in 1..Len(body) : body[k] \in Digits

\* strings.TrimSuffix
TrimSuffix(s, suffix) ==
  IF /\ Len(s) >= Len(suffix)
     /\ SubSeq(s, Len(s) - Len(suffix) + 1, Len(s)) = suffix
  THEN SubSeq(s, 1, Len(s) - Len(suffix))
  ELSE s

\* strings.Join
RECURSIVE Join(_, _)
Join(strs, sep) ==
  IF strs = <<>> THEN ""
  ELSE IF Len(strs) = 1 THEN strs[1]
  ELSE strs[1] \o sep \o Join(Tail(strs), sep)

\* m[k] = v on a Go map
MapPut(m, k, v) == [x \in (DOMAIN m) \cup {k} |-> IF x = k THEN v ELSE m[x]]
EmptyMap == [x \in {} |-> ""]

\* ------------------------------------------------ Reconcile, lines 145-194
NoGitSource == [IsNil |-> TRUE, URL |-> <<>>, Revision |-> ""]   \* a nil *GitSource

\* variant of BuildUrlToBranchMap: the first component of a URL wins
RECURSIVE BuildUrlToBranchMapKeepFirst(_, _)
BuildUrlToBranchMapKeepFirst(items, m) ==
  IF items = <<>> THEN m
  ELSE LET component == Head(items)
       IN  IF ~component.GitSource.IsNil
           THEN LET url == TrimSuffix(TrimSuffix(component.GitSource.URL,
                                                 <<".", "g", "i", "t">>), <<"/">>)
                IN  BuildUrlToBranchMapKeepFirst(Tail(items),
                        IF url \in DOMAIN m THEN m
                        ELSE MapPut(m, url, component.GitSource.Revision))
           ELSE BuildUrlToBranchMapKeepFirst(Tail(items), m)

\* lines 145-151: componentUrlToBranchMap
RECURSIVE BuildUrlToBranchMap(_, _)
BuildUrlToBranchMap(items, m) ==
  IF items = <<>> THEN m
  ELSE LET component == Head(items)
       IN  IF ~component.GitSource.IsNil
           THEN LET url == TrimSuffix(TrimSuffix(component.GitSource.URL,
                                                 <<".", "g", "i", "t">>), <<"/">>)
                IN  BuildUrlToBranchMap(Tail(items),
                                        MapPut(m, url, component.GitSource.Revision))
           ELSE BuildUrlToBranchMap(Tail(items), m)

\* variant of MatchRepositories: matched repositories are collected in
\* reverse order
RECURSIVE MatchRepositoriesReversed(_, _)
MatchRepositoriesReversed(repos, urlToBranch) ==
  IF repos = <<>> THEN <<>>
  ELSE LET repository == Head(repos)
           rest == MatchRepositoriesReversed(Tail(repos), urlToBranch)
       IN  IF repository.HTMLURL \notin DOMAIN urlToBranch
           THEN rest
           ELSE LET branch == urlToBranch[repository.HTMLURL]
                    baseBranches == IF branch # "" THEN <<branch>> ELSE <<>>
                IN  rest \o <<[BaseBranches |-> baseBranches,
                               Repository |-> repository.FullName]>>

\* lines 156-171: the repositories of one installation that have a Component
RECURSIVE MatchRepositories(_, _)
MatchRepositories(repos, urlToBranch) ==
  IF repos = <<>> THEN <<>>
  ELSE LET repository == Head(repos)
           rest == MatchRepositories(Tail(repos), urlToBranch)
       IN  IF repository.HTMLURL \notin DOMAIN urlToBranch
           THEN rest
           ELSE LET branch == urlToBranch[repository.HTMLURL]
                    baseBranches == IF branch # "" THEN <<branch>> ELSE <<>>
                IN  <<[BaseBranches |-> baseBranches,
                       Repository |-> repository.FullName]>> \o rest

\* variant of MatchInstallations: the check of lines 173-175 is missing
RECURSIVE MatchInstallationsKeepEmpty(_, _)
MatchInstallationsKeepEmpty(insts, urlToBranch) ==
  IF insts = <<>> THEN <<>>
  ELSE LET githubAppInstallation == Head(insts)
           repositories == MatchRepositories(githubAppInstallation.Repositories,
                                             urlToBranch)
       IN  <<[id |-> githubAppInstallation.ID,
              token |-> githubAppInstallation.Token,
              repositories |-> repositories]>>
             \o MatchInstallationsKeepEmpty(Tail(insts), urlToBranch)

\* lines 154-182: installationsToUpdate
RECURSIVE MatchInstallations(_, _)
MatchInstallations(insts, urlToBranch) ==
  IF insts = <<>> THEN <<>>
  ELSE LET githubAppInstallation == Head(insts)
           repositories == MatchRepositories(githubAppInstallation.Repositories,
                                             urlToBranch)
           rest == MatchInstallations(Tail(insts), urlToBranch)
       IN  IF Len(repositories) = 0
           THEN rest
           ELSE <<[id |-> githubAppInstallation.ID,
                   token |-> githubAppInstallation.Token,
                   repositories |-> repositories]>> \o rest

\* variant of BatchEnd: the slice takes one element more than the limit
BatchEndPastLimit(idx, limit, length) == Min(idx + limit + 1, length)

\* lines 196-200: the end of the slice that starts at index idx
BatchEnd(idx, limit, length) == Min(idx + limit, length)

\* variant of InstallationPerJobInt: the zero check of lines 189-191 is missing
InstallationPerJobIntNoZeroCheck(installationPerJobStr) ==
  IF MatchesOneOrTwoDigits(installationPerJobStr)
  THEN Atoi(installationPerJobStr)
  ELSE InstallationsPerJob

\* lines 185-194: installationPerJobInt from the environment string
InstallationPerJobInt(installationPerJobStr) ==
  IF MatchesOneOrTwoDigits(installationPerJobStr)
  THEN IF Atoi(installationPerJobStr) = 0
       THEN InstallationsPerJob
       ELSE Atoi(installationPerJobStr)
  ELSE InstallationsPerJob

\* ------------------------------------------- generateConfigJS, lines 210-246
\* json.Marshal of one renovateRepository; baseBranches has omitempty
MarshalRepository(r) ==
  IF r.BaseBranches = <<>>
  THEN [repository |-> r.Repository]
  ELSE [repository |-> r.Repository, baseBranches |-> r.BaseBranches]

MarshalRepositories(repositories) ==
  [k \in 1..Len(repositories) |-> MarshalRepository(repositories[k])]

\* variant of generateConfigJS: the pattern is always the default one
generateConfigJSDefaultPattern(slug, repositories, patternEnv) ==
  LET renovatePattern == IF patternEnv = "" THEN DefaultRenovateMatchPattern
                         ELSE DefaultRenovateMatchPattern
  IN  [platform |-> "github",
       username |-> slug \o "[bot]",
       gitAuthor |-> slug \o " <123456+" \o slug \o "[bot]@users.noreply.github.com>",
       onboarding |-> FALSE,
       requireConfig |-> "ignored",
       enabledManagers |-> <<"tekton">>,
       repositories |-> MarshalRepositories(repositories),
       matchPackagePatterns |-> renovatePattern,
       matchDepPatterns |-> renovatePattern,
       includeForks |-> TRUE,
       dependencyDashboard |-> FALSE]

\* lines 210-246
generateConfigJS(slug, repositories, patternEnv) ==
  LET renovatePattern == IF patternEnv = "" THEN DefaultRenovateMatchPattern
                         ELSE patternEnv
  IN  [platform |-> "github",
       username |-> slug \o "[bot]",
       gitAuthor |-> slug \o " <123456+" \o slug \o "[bot]@users.noreply.github.com>",
       onboarding |-> FALSE,
       requireConfig |-> "ignored",
       enabledManagers |-> <<"tekton">>,
       repositories |-> MarshalRepositories(repositories),
       matchPackagePatterns |-> renovatePattern,
       matchDepPatterns |-> renovatePattern,
       includeForks |-> TRUE,
       dependencyDashboard |-> FALSE]

\* --------------------------------------- CreateRenovaterJob, lines 252-344
JobName(timestamp, random) == "renovate-job-" \o Sprint(timestamp) \o "-" \o random

RenovateCmd(installation) ==
  "RENOVATE_TOKEN=$TOKEN_" \o Sprint(installation.id)
    \o " RENOVATE_CONFIG_FILE=/configs/" \o Sprint(installation.id) \o ".js renovate"

\* variant of SecretTokens: every key receives the token of the first
\* installation of the batch
SecretTokensFirstToken(installations, m) ==
  [x \in (DOMAIN m) \cup {Sprint(installations[k].id) : k \in 1..Len(installations)} |->
     installations[1].token]

\* lines 254-263: the three collections filled by the loop over the batch
RECURSIVE SecretTokens(_, _)
SecretTokens(installations, m) ==
  IF installations = <<>> THEN m
  ELSE SecretTokens(Tail(installations),
                    MapPut(m, Sprint(Head(installations).id), Head(installations).token))

RECURSIVE ConfigMaps(_, _, _, _)
ConfigMaps(installations, slug, patternEnv, m) ==
  IF installations = <<>> THEN m
  ELSE ConfigMaps(Tail(installations), slug, patternEnv,
                  MapPut(m, Sprint(Head(installations).id) \o ".js",
                         generateConfigJS(slug, Head(installations).repositories,
                                          patternEnv)))

RenovateCmds(installations) ==
  [k \in 1..Len(installations) |-> RenovateCmd(installations[k])]

\* lines 267-273
NewSecret(name, secretTokens) ==
  [Kind |-> "Secret", Name |-> name, Namespace |-> buildServiceNamespaceName,
   UID |-> 0, OwnerReferences |-> <<>>, StringData |-> secretTokens]

\* lines 274-280
NewConfigMap(name, configmaps) ==
  [Kind |-> "ConfigMap", Name |-> name, Namespace |-> buildServiceNamespaceName,
   UID |-> 0, OwnerReferences |-> <<>>, Data |-> configmaps]

\* variant of NewJob: the secret is exposed without a prefix
NewJobWithoutPrefix(name, renovateCmds, imageEnv) ==
  [Kind |-> "Job", Name |-> name, Namespace |-> buildServiceNamespaceName,
   UID |-> 0, OwnerReferences |-> <<>>,
   BackoffLimit |-> 1,
   TTLSecondsAfterFinished |-> TimeToLiveOfJob,
   Volumes |-> <<[Name |-> name, ConfigMap |-> name]>>,
   Container |->
     [Name |-> "renovate",
      Image |-> IF imageEnv = "" THEN DefaultRenovateImageUrl ELSE imageEnv,
      EnvFrom |-> <<[Prefix |-> "", SecretRef |-> name]>>,
      Command |-> <<"bash", "-c", Join(renovateCmds, "; ")>>,
      VolumeMounts |-> <<[Name |-> name, MountPath |-> "/configs", ReadOnly |-> FALSE]>>,
      CapabilitiesDrop |-> <<"ALL">>,
      RunAsNonRoot |-> TRUE,
      AllowPrivilegeEscalation |-> FALSE,
      SeccompProfile |-> "RuntimeDefault"],
   RestartPolicy |-> "Never"]

\* lines 281-344
NewJob(name, renovateCmds, imageEnv) ==
  [Kind |-> "Job", Name |-> name, Namespace |-> buildServiceNamespaceName,
   UID |-> 0, OwnerReferences |-> <<>>,
   BackoffLimit |-> 1,
   TTLSecondsAfterFinished |-> TimeToLiveOfJob,
   Volumes |-> <<[Name |-> name, ConfigMap |-> name]>>,
   Container |->
     [Name |-> "renovate",
      Image |-> IF imageEnv = "" THEN DefaultRenovateImageUrl ELSE imageEnv,
      EnvFrom |-> <<[Prefix |-> "TOKEN_", SecretRef |-> name]>>,
      Command |-> <<"bash", "-c", Join(renovateCmds, "; ")>>,
      VolumeMounts |-> <<[Name |-> name, MountPath |-> "/configs", ReadOnly |-> FALSE]>>,
      CapabilitiesDrop |-> <<"ALL">>,
      RunAsNonRoot |-> TRUE,
      AllowPrivilegeEscalation |-> FALSE,
      SeccompProfile |-> "RuntimeDefault"],
   RestartPolicy |-> "Never"]

OwnerRef(owner) == [Kind |-> owner.Kind, Name |-> owner.Name, UID |-> owner.UID]

\* variant of SetOwnerReference: the object is returned without the reference
SetOwnerReferenceForgotten(owner, object) == object

\* controllerutil.SetOwnerReference(owner, object, scheme), lines 356 and 363
SetOwnerReference(owner, object) ==
  [object EXCEPT !.OwnerReferences =
     IF \E k \in 1..Len(@) : @[k].Kind = owner.Kind /\ @[k].Name = owner.Name
     THEN [k \in 1..Len(@) |->
             IF @[k].Kind = owner.Kind /\ @[k].Name = owner.Name
             THEN OwnerRef(owner) ELSE @[k]]
     ELSE Append(@, OwnerRef(owner))]

\* ------------------------------------------------------------------ inputs
SeqsUpTo(S, n) == UNION {[1..k -> S] : k \in 0..n}

RepoNames == {"a", "b"}
Repository(u) == [FullName |-> "org/" \o u, HTMLURL |-> <<u>>]
\* the repositories visible to one installation: distinct, in any order
RepoSeqs == {rs \in SeqsUpTo({Repository(u) : u \in RepoNames}, MaxRepos) :
               \A j, k \in 1..Len(rs) : j # k => rs[j] # rs[k]}

\* installation ids are unique within one directory answer
InstallationID(k) == IF k % 2 = 0 THEN 10 + k ELSE k
Installation(k, repos) ==
  [ID |-> InstallationID(k), Token |-> "ghs_" \o Sprint(InstallationID(k)),
   Repositories |-> repos]
InstallationLists(RS) ==
  UNION {{[j \in 1..k |-> Installation(j, f[j])] : f \in [1..k -> RS]} : k \in 0..MaxInst}

Slug == "renovate-app"
AllDirectory == InstallationLists(RepoSeqs)
\* answers in which the installations alternate between two repository lists
MainDirectory ==
  {[j \in 1..k |-> Installation(j, IF j % 2 = 1
                                   THEN <<Repository("a"), Repository("b")>>
                                   ELSE <<Repository("b")>>)] : k \in 0..MaxInst}
EmptyDirectory == {<<>>}
\* one answer with two installations
PairDirectory == {[j \in 1..2 |-> Installation(j, <<Repository("a")>>)]}

RawURLs == {<<"a">>, <<"a", "/">>, <<"a", ".", "g", "i", "t">>, <<"b">>}
Revisions == {"", "main"}
Component(url, revision) ==
  [GitSource |-> [IsNil |-> FALSE, URL |-> url, Revision |-> revision]]
Components == {[GitSource |-> NoGitSource]}
                \cup {Component(u, r) : u \in RawURLs, r \in Revisions}
AllComponentLists == SeqsUpTo(Components, MaxComponents)
MainComponentLists == {<<>>,
                       <<Component(<<"a">>, "")>>,
                       <<Component(<<"a", ".", "g", "i", "t">>, "main"),
                         Component(<<"b", "/">>, "")>>}
EmptyComponentLists == {<<>>}
TrackingComponentLists == {<<Component(<<"a">>, "")>>}
BothComponentLists == {<<Component(<<"a">>, ""), Component(<<"b">>, "main")>>}
\* Git source URLs with the suffixes a URL may carry
SuffixURLs == RawURLs \cup {<<"a", ".", "g", "i", "t", "/">>,
                            <<"a", "/", ".", "g", "i", "t">>,
                            <<"a", "/", "/">>}
SuffixComponentLists ==
  SeqsUpTo({Component(u, r) : u \in SuffixURLs, r \in {"", "main"}}, MaxComponents)

EmptySecretData == [configured |-> FALSE, appId |-> <<>>, privateKey |-> ""]
PaCSecrets == {[configured |-> TRUE, appId |-> <<"4", "2">>, privateKey |-> "pem"],
               [configured |-> TRUE, appId |-> <<>>, privateKey |-> "pem"],
               EmptySecretData}
ConfiguredSecrets == {[configured |-> TRUE, appId |-> <<"4", "2">>, privateKey |-> "pem"]}

EnvChars == {"0", "7", "a"}
EnvStrings == SeqsUpTo(EnvChars, MaxEnvLen)
MainEnvStrings == {<<>>, <<"1">>, <<"2">>}
UnsetEnvStrings == {<<>>}
SetenvStrings == {<<>>, <<"7">>, <<"0", "0">>}

RandomStrings == {"aaaaa", "bbbbb"}
PatternStrings == {"", "^quay.io/custom.*"}
StoreErrors == {"StoreError"}

\* ------------------------------------------------------- event predicates
\* lines 85-87: CreateFunc looks at e.Object
CreateFunc(e) ==
  e.Namespace = buildServiceNamespaceName /\ e.Name = buildPipelineSelectorResourceName
\* lines 88-90
DeleteFunc(e) == FALSE
\* variant of UpdateFunc: the name of the updated object is not looked at
UpdateFuncAnyName(e) == e.Namespace = buildServiceNamespaceName
\* lines 91-93: UpdateFunc looks at e.ObjectNew
UpdateFunc(e) ==
  e.Namespace = buildServiceNamespaceName /\ e.Name = buildPipelineSelectorResourceName
\* lines 94-96
GenericFunc(e) == FALSE
\* predicate.Funcs: the function of the event's type decides
Predicates(e) ==
  CASE e.Type = "Create" -> CreateFunc(e)
    [] e.Type = "Delete" -> DeleteFunc(e)
    [] e.Type = "Update" -> UpdateFunc(e)
    [] e.Type = "Generic" -> GenericFunc(e)

\* watch events on BuildPipelineSelector objects; an update event carries
\* the namespace and name of its new object
EventTypes == {"Create", "Delete", "Update", "Generic"}
Events == [Type : EventTypes,
           Namespace : {buildServiceNamespaceName, "other-namespace"},
           Name : {buildPipelineSelectorResourceName, "other-selector"}]

\* ------------------------------------------------------------------- state
VARIABLES
  secrets, configMaps, jobs,   \* the store: object name -> stored object
  nextUID,                     \* the store's next object identity
  env,                         \* the process environment
  now,                         \* last value returned by time.Now().Unix()
  pc,                          \* position of each reconciliation
  calls,                       \* store and directory calls issued by each reconciliation
  pacSecret, githubAppInstallations, slug, componentList,
  componentUrlToBranchMap, installationsToUpdate,
  installationPerJobStr, installationPerJobInt, i,
  attempts,                    \* batches handed to CreateRenovaterJob, with its return value
  result, retErr,              \* what Reconcile returned
  installations, name, secret, configMap, job,  \* locals of CreateRenovaterJob
  queue,                       \* the controller's work queue of requests
  request,                     \* the request each reconciliation was invoked with
  lastEvent, nEvents           \* the watch event last delivered, and how many were

storeVars == <<secrets, configMaps, jobs, nextUID>>
readVars == <<pacSecret, githubAppInstallations, slug, componentList,
              componentUrlToBranchMap, installationsToUpdate,
              installationPerJobStr, installationPerJobInt>>
retVars == <<result, retErr>>
cjVars == <<installations, name, secret, configMap, job>>
evVars == <<queue, request, lastEvent, nEvents>>
vars == <<storeVars, env, now, pc, calls, readVars, i, attempts, retVars, cjVars, evVars>>

NoResult == [Requeue |-> FALSE, RequeueAfter |-> -1]
\* variant of EmptyResult: the early returns ask for the periodic requeue
EmptyResultRequeueing == [Requeue |-> FALSE, RequeueAfter |-> NextReconcile]
EmptyResult == [Requeue |-> FALSE, RequeueAfter |-> 0]     \* ctrl.Result{}
\* variant of FinalResult: the final return carries no delay
FinalResultWithoutDelay == [Requeue |-> FALSE, RequeueAfter |-> 0]
FinalResult == [Requeue |-> FALSE, RequeueAfter |-> NextReconcile]   \* line 207
NoObject == [Kind |-> "none"]
NoRequest == [Namespace |-> "", Name |-> ""]
NoEvent == [Type |-> "none", Namespace |-> "", Name |-> ""]

InitWith(perJobStrings) ==
  /\ secrets = EmptyMap /\ configMaps = EmptyMap /\ jobs = EmptyMap
  /\ nextUID = 1
  /\ env \in [perJob : perJobStrings, pattern : {""}, image : {""}]
  /\ now = 0
  /\ pc = [p \in Procs |-> "idle"]
  /\ calls = [p \in Procs |-> <<>>]
  /\ pacSecret = [p \in Procs |-> EmptySecretData]
  /\ githubAppInstallations = [p \in Procs |-> <<>>]
  /\ slug = [p \in Procs |-> ""]
  /\ componentList = [p \in Procs |-> <<>>]
  /\ componentUrlToBranchMap = [p \in Procs |-> EmptyMap]
  /\ installationsToUpdate = [p \in Procs |-> <<>>]
  /\ installationPerJobStr = [p \in Procs |-> <<>>]
  /\ installationPerJobInt = [p \in Procs |-> 0]
  /\ i = [p \in Procs |-> 0]
  /\ attempts = [p \in Procs |-> <<>>]
  /\ result = [p \in Procs |-> NoResult]
  /\ retErr = [p \in Procs |-> NoErr]
  /\ installations = [p \in Procs |-> <<>>]
  /\ name = [p \in Procs |-> ""]
  /\ secret = [p \in Procs |-> NoObject]
  /\ configMap = [p \in Procs |-> NoObject]
  /\ job = [p \in Procs |-> NoObject]
  /\ queue = {}
  /\ request = [p \in Procs |-> NoRequest]
  /\ lastEvent = NoEvent
  /\ nEvents = 0

Init == InitWith(MainEnvStrings)

\* --------------------------------------------------------------- Reconcile
Call(op, kind, objName, err) == [op |-> op, kind |-> kind, name |-> objName, err |-> err]

\* `return res, e` from Reconcile
Return(self, res, e) ==
  /\ pc' = [pc EXCEPT ![self] = "done"]
  /\ result' = [result EXCEPT ![self] = res]
  /\ retErr' = [retErr EXCEPT ![self] = e]

\* the controller runtime invokes Reconcile
Start(self) ==
  /\ pc[self] = "idle"
  /\ pc' = [pc EXCEPT ![self] = "getSecret"]
  /\ UNCHANGED <<evVars, storeVars, env, now, calls, readVars, i, attempts, retVars, cjVars>>

\* gitops.IsPaCApplicationConfigured("github", data), line 120
IsPaCApplicationConfigured(data) == data.configured

\* variant of GetPaCSecret: a failed read of the secret is returned as the
\* error of Reconcile
GetPaCSecretReturningError(self, found) ==
  /\ pc[self] = "getSecret"
  /\ \E got \in {[err |-> "GetError", data |-> EmptySecretData],
                 [err |-> "NotFound", data |-> EmptySecretData]}
                  \cup {[err |-> NoErr, data |-> d] : d \in found} :
       /\ calls' = [calls EXCEPT ![self] =
              IF got.err \notin {NoErr, "NotFound"}
              THEN @ \o <<Call("Get", "Secret", PipelinesAsCodeSecretName, got.err),
                          Call("Event", "Warning", "ErrorReadingPaCSecret", NoErr)>>
              ELSE Append(@, Call("Get", "Secret", PipelinesAsCodeSecretName, got.err))]
       /\ pacSecret' = [pacSecret EXCEPT ![self] = got.data]
       /\ IF got.err \notin {NoErr, "NotFound"}
          THEN Return(self, EmptyResult, got.err)
          ELSE IF ~IsPaCApplicationConfigured(got.data)
          THEN Return(self, EmptyResult, NoErr)
          ELSE IF ~ParseIntOk(got.data.appId)
          THEN Return(self, EmptyResult, NoErr)
          ELSE /\ pc' = [pc EXCEPT ![self] = "getInstallations"]
               /\ UNCHANGED retVars
  /\ UNCHANGED <<evVars, storeVars, env, now, githubAppInstallations, slug, componentList,
                 componentUrlToBranchMap, installationsToUpdate,
                 installationPerJobStr, installationPerJobInt, i, attempts, cjVars>>

\* lines 111-133: read the Pipelines as Code secret and the application id
GetPaCSecret(self, found) ==
  /\ pc[self] = "getSecret"
  /\ \E got \in {[err |-> "GetError", data |-> EmptySecretData],
                 [err |-> "NotFound", data |-> EmptySecretData]}
                  \cup {[err |-> NoErr, data |-> d] : d \in found} :
       /\ calls' = [calls EXCEPT ![self] =
              IF got.err \notin {NoErr, "NotFound"}
              THEN @ \o <<Call("Get", "Secret", PipelinesAsCodeSecretName, got.err),
                          Call("Event", "Warning", "ErrorReadingPaCSecret", NoErr)>>
              ELSE Append(@, Call("Get", "Secret", PipelinesAsCodeSecretName, got.err))]
       /\ pacSecret' = [pacSecret EXCEPT ![self] = got.data]
       /\ IF got.err \notin {NoErr, "NotFound"}
          THEN Return(self, EmptyResult, NoErr)
          ELSE IF ~IsPaCApplicationConfigured(got.data)
          THEN Return(self, EmptyResult, NoErr)
          ELSE IF ~ParseIntOk(got.data.appId)
          THEN Return(self, EmptyResult, NoErr)
          ELSE /\ pc' = [pc EXCEPT ![self] = "getInstallations"]
               /\ UNCHANGED retVars
  /\ UNCHANGED <<evVars, storeVars, env, now, githubAppInstallations, slug, componentList,
                 componentUrlToBranchMap, installationsToUpdate,
                 installationPerJobStr, installationPerJobInt, i, attempts, cjVars>>

\* lines 134-137: github.GetInstallations(githubAppId, privateKey)
GetInstallations(self, directory) ==
  /\ pc[self] = "getInstallations"
  /\ \/ /\ calls' = [calls EXCEPT ![self] = Append(@, Call("GetInstallations", "Directory", "", "DirectoryError"))]
        /\ Return(self, EmptyResult, "DirectoryError")
        /\ UNCHANGED <<githubAppInstallations, slug>>
     \/ \E insts \in directory :
        /\ calls' = [calls EXCEPT ![self] = Append(@, Call("GetInstallations", "Directory", "", NoErr))]
        /\ githubAppInstallations' = [githubAppInstallations EXCEPT ![self] = insts]
        /\ slug' = [slug EXCEPT ![self] = Slug]
        /\ pc' = [pc EXCEPT ![self] = "listComponents"]
        /\ UNCHANGED retVars
  /\ UNCHANGED <<evVars, storeVars, env, now, pacSecret, componentList,
                 componentUrlToBranchMap, installationsToUpdate,
                 installationPerJobStr, installationPerJobInt, i, attempts, cjVars>>

\* lines 140-194: list the Components, build the URL map, match the
\* installations and read the batch limit from the environment
ListComponents(self, componentLists) ==
  /\ pc[self] = "listComponents"
  /\ \/ /\ calls' = [calls EXCEPT ![self] = Append(@, Call("List", "Component", "", "ListError"))]
        /\ Return(self, EmptyResult, "ListError")
        /\ UNCHANGED <<componentList, componentUrlToBranchMap, installationsToUpdate,
                       installationPerJobStr, installationPerJobInt, i>>
     \/ \E items \in componentLists :
        LET urlToBranch == BuildUrlToBranchMap(items, EmptyMap)
        IN  /\ calls' = [calls EXCEPT ![self] = Append(@, Call("List", "Component", "", NoErr))]
            /\ componentList' = [componentList EXCEPT ![self] = items]
            /\ componentUrlToBranchMap' = [componentUrlToBranchMap EXCEPT ![self] = urlToBranch]
            /\ installationsToUpdate' = [installationsToUpdate EXCEPT ![self] =
                   MatchInstallations(githubAppInstallations[self], urlToBranch)]
            /\ installationPerJobStr' = [installationPerJobStr EXCEPT ![self] = env.perJob]
            /\ installationPerJobInt' = [installationPerJobInt EXCEPT ![self] =
                   InstallationPerJobInt(env.perJob)]
            /\ i' = [i EXCEPT ![self] = 0]
            /\ pc' = [pc EXCEPT ![self] = "loop"]
            /\ UNCHANGED retVars
  /\ UNCHANGED <<evVars, storeVars, env, now, pacSecret, githubAppInstallations, slug,
                 attempts, cjVars>>

\* lines 195-201 and 207: the loop header, the slice and the call, or the
\* final return once the index has passed the end
Loop(self) ==
  /\ pc[self] = "loop"
  /\ IF i[self] < Len(installationsToUpdate[self])
     THEN LET end == BatchEnd(i[self], installationPerJobInt[self],
                              Len(installationsToUpdate[self]))
              batch == SubSeq(installationsToUpdate[self], i[self] + 1, end)
          IN  /\ installations' = [installations EXCEPT ![self] = batch]
              /\ attempts' = [attempts EXCEPT ![self] =
                     Append(@, [from |-> i[self], batch |-> batch, name |-> "",
                                pattern |-> "",
                                firstCall |-> Len(calls[self]) + 1, err |-> "running"])]
              /\ pc' = [pc EXCEPT ![self] = "CreateRenovaterJob"]
              /\ UNCHANGED <<retVars, name, secret, configMap, job>>
     ELSE /\ Return(self, FinalResult, NoErr)
          /\ UNCHANGED <<attempts, cjVars>>
  /\ UNCHANGED <<evVars, storeVars, env, now, calls, readVars, i>>

\* ------------------------------------------------------ CreateRenovaterJob
\* variant of ReturnFromCreateRenovaterJob: an error ends the loop
ReturnFromCreateRenovaterJobBreaking(self, e) ==
  /\ attempts' = [attempts EXCEPT ![self] = [@ EXCEPT ![Len(@)].err = e]]
  /\ i' = [i EXCEPT ![self] = IF e # NoErr THEN Len(installationsToUpdate[self])
                              ELSE @ + installationPerJobInt[self]]
  /\ pc' = [pc EXCEPT ![self] = "loop"]

\* variant of ReturnFromCreateRenovaterJob: the index advances by one less
\* than the limit
ReturnFromCreateRenovaterJobStalling(self, e) ==
  /\ attempts' = [attempts EXCEPT ![self] = [@ EXCEPT ![Len(@)].err = e]]
  /\ i' = [i EXCEPT ![self] = @ + installationPerJobInt[self] - 1]
  /\ pc' = [pc EXCEPT ![self] = "loop"]

\* `return e` from CreateRenovaterJob, then lines 202-205 of the caller:
\* the error is logged and the loop index advances
ReturnFromCreateRenovaterJob(self, e) ==
  /\ attempts' = [attempts EXCEPT ![self] = [@ EXCEPT ![Len(@)].err = e]]
  /\ i' = [i EXCEPT ![self] = @ + installationPerJobInt[self]]
  /\ pc' = [pc EXCEPT ![self] = "loop"]

\* variant of CreateOutcomes: a name already present is created again
CreateOutcomesOverwriting(objects, objName, failures) == {NoErr} \cup failures

\* outcome of client.Create for a name: the store refuses a name already
\* present; any call may also fail with one of the errors in `failures`
CreateOutcomes(objects, objName, failures) ==
  (IF objName \in DOMAIN objects THEN {"AlreadyExists"} ELSE {NoErr}) \cup failures

\* outcome of client.Update: the object must be the stored one
UpdateOutcomes(objects, object, failures) ==
  (IF object.Name \in DOMAIN objects /\ objects[object.Name].UID = object.UID
   THEN {NoErr} ELSE {"NotFound"}) \cup failures

\* lines 249-344: the name is chosen and the three objects are built
BuildRenovaterJob(self) ==
  /\ pc[self] = "CreateRenovaterJob"
  /\ IF Len(installations[self]) = 0
     THEN /\ ReturnFromCreateRenovaterJob(self, NoErr)
          /\ UNCHANGED <<now, name, secret, configMap, job>>
     ELSE \E timestamp \in now..MaxClock, random \in RandomStrings :
          LET n == JobName(timestamp, random)
              renovateCmds == RenovateCmds(installations[self])
          IN  /\ now' = timestamp
              /\ name' = [name EXCEPT ![self] = n]
              /\ secret' = [secret EXCEPT ![self] =
                     NewSecret(n, SecretTokens(installations[self], EmptyMap))]
              /\ configMap' = [configMap EXCEPT ![self] =
                     NewConfigMap(n, ConfigMaps(installations[self], slug[self],
                                                env.pattern, EmptyMap))]
              /\ job' = [job EXCEPT ![self] = NewJob(n, renovateCmds, env.image)]
              /\ IF Len(renovateCmds) = 0
                 THEN ReturnFromCreateRenovaterJob(self, NoErr)
                 ELSE /\ pc' = [pc EXCEPT ![self] = "createSecret"]
                      /\ attempts' = [attempts EXCEPT ![self] =
                             [@ EXCEPT ![Len(@)] =
                                [@ EXCEPT !.name = n, !.pattern = env.pattern]]]
                      /\ UNCHANGED i
  /\ UNCHANGED <<evVars, storeVars, env, calls, readVars, retVars, installations>>

\* variant of CreateSecret: a failed creation is not returned and the
\* configuration object is created all the same
CreateSecretIgnoringError(self, failures) ==
  /\ pc[self] = "createSecret"
  /\ \E e \in CreateOutcomes(secrets, name[self], failures) :
       /\ calls' = [calls EXCEPT ![self] = Append(@, Call("Create", "Secret", name[self], e))]
       /\ pc' = [pc EXCEPT ![self] = "createConfigMap"]
       /\ IF e = NoErr
          THEN LET created == [secret[self] EXCEPT !.UID = nextUID]
               IN  /\ secrets' = MapPut(secrets, name[self], created)
                   /\ secret' = [secret EXCEPT ![self] = created]
                   /\ nextUID' = nextUID + 1
          ELSE UNCHANGED <<secrets, secret, nextUID>>
  /\ UNCHANGED <<evVars, configMaps, jobs, env, now, readVars, retVars, i, attempts,
                 installations, name, configMap, job>>

\* lines 346-348
CreateSecret(self, failures) ==
  /\ pc[self] = "createSecret"
  /\ \E e \in CreateOutcomes(secrets, name[self], failures) :
       /\ calls' = [calls EXCEPT ![self] = Append(@, Call("Create", "Secret", name[self], e))]
       /\ IF e = NoErr
          THEN LET created == [secret[self] EXCEPT !.UID = nextUID]
               IN  /\ secrets' = MapPut(secrets, name[self], created)
                   /\ secret' = [secret EXCEPT ![self] = created]
                   /\ nextUID' = nextUID + 1
                   /\ pc' = [pc EXCEPT ![self] = "createConfigMap"]
                   /\ UNCHANGED <<i, attempts>>
          ELSE /\ ReturnFromCreateRenovaterJob(self, e)
               /\ UNCHANGED <<secrets, secret, nextUID>>
  /\ UNCHANGED <<evVars, configMaps, jobs, env, now, readVars, retVars,
                 installations, name, configMap, job>>

\* variant of CreateConfigMap: a failed creation is not returned and the
\* job is created all the same
CreateConfigMapIgnoringError(self, failures) ==
  /\ pc[self] = "createConfigMap"
  /\ \E e \in CreateOutcomes(configMaps, name[self], failures) :
       /\ calls' = [calls EXCEPT ![self] = Append(@, Call("Create", "ConfigMap", name[self], e))]
       /\ pc' = [pc EXCEPT ![self] = "createJob"]
       /\ IF e = NoErr
          THEN LET created == [configMap[self] EXCEPT !.UID = nextUID]
               IN  /\ configMaps' = MapPut(configMaps, name[self], created)
                   /\ configMap' = [configMap EXCEPT ![self] = created]
                   /\ nextUID' = nextUID + 1
          ELSE UNCHANGED <<configMaps, configMap, nextUID>>
  /\ UNCHANGED <<evVars, secrets, jobs, env, now, readVars, retVars, i, attempts,
                 installations, name, secret, job>>

\* lines 349-351
CreateConfigMap(self, failures) ==
  /\ pc[self] = "createConfigMap"
  /\ \E e \in CreateOutcomes(configMaps, name[self], failures) :
       /\ calls' = [calls EXCEPT ![self] = Append(@, Call("Create", "ConfigMap", name[self], e))]
       /\ IF e = NoErr
          THEN LET created == [configMap[self] EXCEPT !.UID = nextUID]
               IN  /\ configMaps' = MapPut(configMaps, name[self], created)
                   /\ configMap' = [configMap EXCEPT ![self] = created]
                   /\ nextUID' = nextUID + 1
                   /\ pc' = [pc EXCEPT ![self] = "createJob"]
                   /\ UNCHANGED <<i, attempts>>
          ELSE /\ ReturnFromCreateRenovaterJob(self, e)
               /\ UNCHANGED <<configMaps, configMap, nextUID>>
  /\ UNCHANGED <<evVars, secrets, jobs, env, now, readVars, retVars,
                 installations, name, secret, job>>

\* lines 352-355
CreateJob(self, failures) ==
  /\ pc[self] = "createJob"
  /\ \E e \in CreateOutcomes(jobs, name[self], failures) :
       /\ calls' = [calls EXCEPT ![self] = Append(@, Call("Create", "Job", name[self], e))]
       /\ IF e = NoErr
          THEN LET created == [job[self] EXCEPT !.UID = nextUID]
               IN  /\ jobs' = MapPut(jobs, name[self], created)
                   /\ job' = [job EXCEPT ![self] = created]
                   /\ nextUID' = nextUID + 1
                   /\ pc' = [pc EXCEPT ![self] = "updateSecret"]
                   /\ UNCHANGED <<i, attempts>>
          ELSE /\ ReturnFromCreateRenovaterJob(self, e)
               /\ UNCHANGED <<jobs, job, nextUID>>
  /\ UNCHANGED <<evVars, secrets, configMaps, env, now, readVars, retVars,
                 installations, name, secret, configMap>>

\* lines 356-361: the job becomes the owner of the secret, which is updated
UpdateSecret(self, failures) ==
  /\ pc[self] = "updateSecret"
  /\ \/ /\ failures # {}            \* SetOwnerReference returns an error
        /\ ReturnFromCreateRenovaterJob(self, "SetOwnerReferenceError")
        /\ UNCHANGED <<secrets, secret, calls>>
     \/ LET owned == SetOwnerReference(job[self], secret[self])
        IN  \E e \in UpdateOutcomes(secrets, owned, failures) :
              /\ secret' = [secret EXCEPT ![self] = owned]
              /\ calls' = [calls EXCEPT ![self] = Append(@, Call("Update", "Secret", owned.Name, e))]
              /\ IF e = NoErr
                 THEN /\ secrets' = [secrets EXCEPT ![owned.Name] = owned]
                      /\ pc' = [pc EXCEPT ![self] = "updateConfigMap"]
                      /\ UNCHANGED <<i, attempts>>
                 ELSE /\ ReturnFromCreateRenovaterJob(self, e)
                      /\ UNCHANGED secrets
  /\ UNCHANGED <<evVars, configMaps, jobs, nextUID, env, now, readVars, retVars,
                 installations, name, configMap, job>>

\* lines 363-370: the job becomes the owner of the config map, which is
\* updated, and CreateRenovaterJob returns nil
UpdateConfigMap(self, failures) ==
  /\ pc[self] = "updateConfigMap"
  /\ \/ /\ failures # {}            \* SetOwnerReference returns an error
        /\ ReturnFromCreateRenovaterJob(self, "SetOwnerReferenceError")
        /\ UNCHANGED <<configMaps, configMap, calls>>
     \/ LET owned == SetOwnerReference(job[self], configMap[self])
        IN  \E e \in UpdateOutcomes(configMaps, owned, failures) :
              /\ configMap' = [configMap EXCEPT ![self] = owned]
              /\ calls' = [calls EXCEPT ![self] = Append(@, Call("Update", "ConfigMap", owned.Name, e))]
              /\ ReturnFromCreateRenovaterJob(self, e)
              /\ IF e = NoErr
                 THEN configMaps' = [configMaps EXCEPT ![owned.Name] = owned]
                 ELSE UNCHANGED configMaps
  /\ UNCHANGED <<evVars, secrets, jobs, nextUID, env, now, readVars, retVars,
                 installations, name, secret, job>>

\* os.Setenv of RENOVATE_INSTALLATIONS_PER_JOB between reconciliations
Setenv(perJobStrings) ==
  /\ \E v \in perJobStrings :
       /\ v # env.perJob
       /\ env' = [env EXCEPT !.perJob = v]
  /\ UNCHANGED <<evVars, storeVars, now, pc, calls, readVars, i, attempts, retVars, cjVars>>

\* os.Setenv of RENOVATE_PATTERN while a reconciliation runs
SetenvPattern(patterns) ==
  /\ \E v \in patterns :
       /\ v # env.pattern
       /\ env' = [env EXCEPT !.pattern = v]
  /\ UNCHANGED <<evVars, storeVars, now, pc, calls, readVars, i, attempts, retVars, cjVars>>

\* ------------------------------------------------- the controller runtime
\* lines 84-97: a watch event is handed to the predicates; an event they
\* let through enqueues the request for its object, once per key
Deliver(events) ==
  /\ nEvents < MaxEvents
  /\ \E e \in events :
       /\ lastEvent' = e
       /\ nEvents' = nEvents + 1
       /\ queue' = IF Predicates(e)
                   THEN queue \cup {[Namespace |-> e.Namespace, Name |-> e.Name]}
                   ELSE queue
  /\ UNCHANGED <<storeVars, env, now, pc, calls, readVars, i, attempts, retVars,
                 cjVars, request>>

\* the worker takes a request off the queue and invokes Reconcile with it
Dispatch(self) ==
  /\ pc[self] = "idle"
  /\ \E r \in queue :
       /\ queue' = queue \ {r}
       /\ request' = [request EXCEPT ![self] = r]
  /\ pc' = [pc EXCEPT ![self] = "getSecret"]
  /\ UNCHANGED <<storeVars, env, now, calls, readVars, i, attempts, retVars,
                 cjVars, lastEvent, nEvents>>

\* Reconcile has returned: an error or a RequeueAfter puts the request
\* back on the queue, and the locals of the invocation are gone
Finish(self) ==
  /\ pc[self] = "done"
  /\ queue' = IF retErr[self] # NoErr \/ result[self].RequeueAfter > 0 \/ result[self].Requeue
              THEN queue \cup {request[self]}
              ELSE queue
  /\ request' = [request EXCEPT ![self] = NoRequest]
  /\ pc' = [pc EXCEPT ![self] = "idle"]
  /\ calls' = [calls EXCEPT ![self] = <<>>]
  /\ pacSecret' = [pacSecret EXCEPT ![self] = EmptySecretData]
  /\ githubAppInstallations' = [githubAppInstallations EXCEPT ![self] = <<>>]
  /\ slug' = [slug EXCEPT ![self] = ""]
  /\ componentList' = [componentList EXCEPT ![self] = <<>>]
  /\ componentUrlToBranchMap' = [componentUrlToBranchMap EXCEPT ![self] = EmptyMap]
  /\ installationsToUpdate' = [installationsToUpdate EXCEPT ![self] = <<>>]
  /\ installationPerJobStr' = [installationPerJobStr EXCEPT ![self] = <<>>]
  /\ installationPerJobInt' = [installationPerJobInt EXCEPT ![self] = 0]
  /\ i' = [i EXCEPT ![self] = 0]
  /\ attempts' = [attempts EXCEPT ![self] = <<>>]
  /\ result' = [result EXCEPT ![self] = NoResult]
  /\ retErr' = [retErr EXCEPT ![self] = NoErr]
  /\ installations' = [installations EXCEPT ![self] = <<>>]
  /\ name' = [name EXCEPT ![self] = ""]
  /\ secret' = [secret EXCEPT ![self] = NoObject]
  /\ configMap' = [configMap EXCEPT ![self] = NoObject]
  /\ job' = [job EXCEPT ![self] = NoObject]
  /\ UNCHANGED <<storeVars, env, now, lastEvent, nEvents>>

\* ---------------------------------------------------------- specifications
CreateRenovaterJobStep(self, failures) ==
  \/ BuildRenovaterJob(self)
  \/ CreateSecret(self, failures)
  \/ CreateConfigMap(self, failures)
  \/ CreateJob(self, failures)
  \/ UpdateSecret(self, failures)
  \/ UpdateConfigMap(self, failures)

\* one reconciliation, every store call may fail
Next ==
  \/ Start("r1")
  \/ GetPaCSecret("r1", PaCSecrets)
  \/ GetInstallations("r1", MainDirectory)
  \/ ListComponents("r1", MainComponentLists)
  \/ Loop("r1")
  \/ CreateRenovaterJobStep("r1", StoreErrors)

Spec == Init /\ [][Next]_vars

\* the matcher over every directory answer and every component list
NextMatch ==
  \/ Start("r1")
  \/ GetPaCSecret("r1", ConfiguredSecrets)
  \/ GetInstallations("r1", AllDirectory)
  \/ ListComponents("r1", AllComponentLists)

InitMatch == InitWith(UnsetEnvStrings)

SpecMatch == InitMatch /\ [][NextMatch]_vars

\* the batch limit over every environment string, re-read by two
\* reconciliations between which the environment changes
InitLimit == InitWith(EnvStrings)

NextLimit ==
  \/ Setenv(SetenvStrings)
  \/ \E self \in Procs :
       \/ Start(self)
       \/ GetPaCSecret(self, ConfiguredSecrets)
       \/ GetInstallations(self, EmptyDirectory)
       \/ ListComponents(self, EmptyComponentLists)
       \/ Loop(self)

SpecLimit == InitLimit /\ [][NextLimit]_vars

\* the tracked-repository mapping over Git source URLs with every suffix
NextUrl ==
  \/ Start("r1")
  \/ GetPaCSecret("r1", ConfiguredSecrets)
  \/ GetInstallations("r1", MainDirectory)
  \/ ListComponents("r1", SuffixComponentLists)

SpecUrl == InitMatch /\ [][NextUrl]_vars

\* one reconciliation during which RENOVATE_PATTERN may change; the store
\* calls do not fail
NextPattern ==
  \/ SetenvPattern(PatternStrings)
  \/ Start("r1")
  \/ GetPaCSecret("r1", ConfiguredSecrets)
  \/ GetInstallations("r1", MainDirectory)
  \/ ListComponents("r1", MainComponentLists)
  \/ Loop("r1")
  \/ CreateRenovaterJobStep("r1", {})

SpecPattern == Init /\ [][NextPattern]_vars

\* two reconciliations at a time over the same store, every store call may
\* fail; both may choose the same artifact name
NextConcurrent ==
  \E self \in Procs :
    \/ Start(self)
    \/ GetPaCSecret(self, ConfiguredSecrets)
    \/ GetInstallations(self, PairDirectory)
    \/ ListComponents(self, TrackingComponentLists)
    \/ Loop(self)
    \/ CreateRenovaterJobStep(self, StoreErrors)

SpecConcurrent == InitMatch /\ [][NextConcurrent]_vars

\* one reconciliation over every environment string, whose calls all
\* return: a step that can be taken is eventually taken
InitTermination == InitWith(EnvStrings \cup MainEnvStrings)

NextTermination ==
  \/ Start("r1")
  \/ GetPaCSecret("r1", ConfiguredSecrets)
  \/ GetInstallations("r1", MainDirectory)
  \/ ListComponents("r1", BothComponentLists)
  \/ Loop("r1")
  \/ CreateRenovaterJobStep("r1", {})

SpecTermination ==
  InitTermination /\ [][NextTermination]_vars /\ WF_vars(NextTermination)

\* the watch: events of every type, namespace and name reach the predicates,
\* and one worker reconciles the requests they let through
NextEvents ==
  \/ Deliver(Events)
  \/ Dispatch("r1")
  \/ GetPaCSecret("r1", PaCSecrets)
  \/ GetInstallations("r1", EmptyDirectory)
  \/ ListComponents("r1", EmptyComponentLists)
  \/ Loop("r1")
  \/ Finish("r1")

SpecEvents == Init /\ [][NextEvents]_vars

\* ------------------------------------------------------------- properties
\* the reconciliation p has listed the Components and run the matcher
MatchDone(p) ==
  \E k \in 1..Len(calls[p]) : calls[p][k].op = "List" /\ calls[p][k].err = NoErr

\* the repository is tracked: its HTML URL is a key of the mapping of p
IsTracked(p, repository) == repository.HTMLURL \in DOMAIN componentUrlToBranchMap[p]
HasTracked(p, inst) ==
  \E k \in 1..Len(inst.Repositories) : IsTracked(p, inst.Repositories[k])

\* C1: a matched installation has at least one repository whose HTML URL is
\* a key of the tracked mapping, no matched installation has an empty
\* repository list, and an installation without any tracked repository
\* produces no entry.
C1_MatchedOnlyTracked ==
  \A p \in Procs : MatchDone(p) =>
    /\ \A k \in 1..Len(installationsToUpdate[p]) :
         /\ installationsToUpdate[p][k].repositories # <<>>
         /\ \E j \in 1..Len(githubAppInstallations[p]) :
              /\ githubAppInstallations[p][j].ID = installationsToUpdate[p][k].id
              /\ HasTracked(p, githubAppInstallations[p][j])
    /\ \A j \in 1..Len(githubAppInstallations[p]) :
         ~HasTracked(p, githubAppInstallations[p][j]) =>
           \A k \in 1..Len(installationsToUpdate[p]) :
             installationsToUpdate[p][k].id # githubAppInstallations[p][j].ID

\* an installation with repositories, none of them tracked, was dropped
\* while another installation was kept
C1_Witness ==
  \E p \in Procs :
    /\ MatchDone(p)
    /\ installationsToUpdate[p] # <<>>
    /\ \E j \in 1..Len(githubAppInstallations[p]) :
         /\ githubAppInstallations[p][j].Repositories # <<>>
         /\ ~HasTracked(p, githubAppInstallations[p][j])

\* C2: the matched installations are the installations with a tracked
\* repository, in directory order, and the repositories of each are its
\* tracked repositories, in directory order, nothing added or omitted.
C2_OrderPreservingFilter ==
  \A p \in Procs : MatchDone(p) =>
    LET KeepInst(inst) == HasTracked(p, inst)
        KeepRepo(repository) == IsTracked(p, repository)
        kept == SelectSeq(githubAppInstallations[p], KeepInst)
    IN  /\ Len(installationsToUpdate[p]) = Len(kept)
        /\ \A k \in 1..Len(kept) :
             LET m == installationsToUpdate[p][k]
                 tracked == SelectSeq(kept[k].Repositories, KeepRepo)
             IN  /\ m.id = kept[k].ID
                 /\ m.token = kept[k].Token
                 /\ Len(m.repositories) = Len(tracked)
                 /\ \A j \in 1..Len(tracked) :
                      m.repositories[j].Repository = tracked[j].FullName

\* two installations were kept and one dropped, and one of the kept ones
\* lost the repository that precedes its tracked one
C2_Witness ==
  \E p \in Procs :
    /\ MatchDone(p)
    /\ Len(installationsToUpdate[p]) >= 2
    /\ Len(githubAppInstallations[p]) > Len(installationsToUpdate[p])
    /\ \E j \in 1..Len(githubAppInstallations[p]) :
         /\ HasTracked(p, githubAppInstallations[p][j])
         /\ ~IsTracked(p, githubAppInstallations[p][j].Repositories[1])

\* the reconciliation p has left the batching loop and returned
LoopFinished(p) == MatchDone(p) /\ pc[p] = "done"

RECURSIVE ConcatBatches(_)
ConcatBatches(as) ==
  IF as = <<>> THEN <<>> ELSE Head(as).batch \o ConcatBatches(Tail(as))

\* C3: the batches handed to CreateRenovaterJob are contiguous, non-empty
\* and at most `limit` long, all but the last have exactly `limit`
\* entries, and concatenated in processing order they reproduce the
\* matched-installation list.
C3_BatchPartition ==
  \A p \in Procs : MatchDone(p) =>
    LET limit == installationPerJobInt[p]
        matched == installationsToUpdate[p]
        all == ConcatBatches(attempts[p])
    IN  /\ \A k \in 1..Len(attempts[p]) :
             LET b == attempts[p][k]
             IN  /\ Len(b.batch) >= 1
                 /\ Len(b.batch) <= limit
                 /\ k < Len(attempts[p]) => Len(b.batch) = limit
                 /\ b.from + Len(b.batch) <= Len(matched)
                 /\ b.batch = SubSeq(matched, b.from + 1, b.from + Len(b.batch))
        /\ Len(all) <= Len(matched)
        /\ all = SubSeq(matched, 1, Len(all))
        /\ LoopFinished(p) => all = matched

\* three matched installations went out as a full batch of two followed by
\* a last batch of one
C3_Witness ==
  \E p \in Procs :
    /\ LoopFinished(p)
    /\ installationPerJobInt[p] = 2
    /\ Len(attempts[p]) = 2
    /\ Len(attempts[p][1].batch) = 2
    /\ Len(attempts[p][2].batch) = 1

\* the value the claim gives for an environment string
ClaimedLimit(str) ==
  LET value == IF Len(str) = 1 THEN DigitVal(str[1])
               ELSE 10 * DigitVal(str[1]) + DigitVal(str[2])
  IN  IF Len(str) \in {1, 2} /\ (\A k \in DOMAIN str : str[k] \in Digits)
      THEN IF value # 0 THEN value ELSE 20
      ELSE 20

\* C4: the effective batch limit is the value of the environment string
\* when it is one or two decimal digits denoting a non-zero number and 20
\* otherwise, and every reconciliation reads the string the environment
\* holds at that moment.
C4_EffectiveLimit ==
  /\ [](\A p \in Procs : MatchDone(p) =>
          installationPerJobInt[p] = ClaimedLimit(installationPerJobStr[p]))
  /\ [][\A p \in Procs : (~MatchDone(p) /\ MatchDone(p)') =>
          installationPerJobStr'[p] = env.perJob]_vars

\* two reconciliations read different values: 7 from "7" and the default
\* from "00"
C4_Witness ==
  /\ MatchDone("r1") /\ MatchDone("r2")
  /\ installationPerJobStr["r1"] = <<"7">> /\ installationPerJobInt["r1"] = 7
  /\ installationPerJobStr["r2"] = <<"0", "0">> /\ installationPerJobInt["r2"] = 20

\* the credential-presence check of p found no secret or a false flag
Inactive(p) ==
  /\ calls[p] # <<>>
  /\ \/ calls[p][1].err = "NotFound"
     \/ calls[p][1].err = NoErr /\ ~pacSecret[p].configured

\* C5: an INACTIVE reconciliation issues no directory call, no component
\* listing, no create and no update, and returns no error and no requeue.
C5_InactiveNoOp ==
  \A p \in Procs : Inactive(p) =>
    /\ pc[p] = "done"
    /\ Len(calls[p]) = 1
    /\ calls[p][1].op = "Get"
    /\ result[p] = [Requeue |-> FALSE, RequeueAfter |-> 0]
    /\ retErr[p] = NoErr
    /\ secrets = EmptyMap /\ configMaps = EmptyMap /\ jobs = EmptyMap

\* a reconciliation returned after the secret was not found
C5_Witness ==
  \E p \in Procs : pc[p] = "done" /\ Inactive(p) /\ calls[p][1].err = "NotFound"

\* C6: a reconciliation that reached batch processing returns a requeue
\* request with the 10-hour delay and no error, whatever the batches did.
C6_AlwaysRequeue ==
  \A p \in Procs : LoopFinished(p) =>
    /\ result[p].RequeueAfter = 10 * 3600
    /\ retErr[p] = NoErr

\* a reconciliation returned after both of its batches failed
C6_Witness ==
  \E p \in Procs :
    /\ LoopFinished(p)
    /\ Len(attempts[p]) = 2
    /\ \A k \in 1..2 : attempts[p][k].err \notin {NoErr, "running"}

\* C7: batches are processed one after another in batch order, each
\* exactly once, a failed batch does not stop the later ones, and without
\* a matched installation no create or update call is issued.
C7_SequentialIndependentBatches ==
  \A p \in Procs : MatchDone(p) =>
    LET limit == installationPerJobInt[p]
        n == Len(installationsToUpdate[p])
    IN  /\ \A k \in 1..Len(attempts[p]) :
             /\ attempts[p][k].from = (k - 1) * limit
             /\ k < Len(attempts[p]) => attempts[p][k].err # "running"
             /\ attempts[p][k].err = "running" =>
                  pc[p] \notin {"loop", "done"}
        /\ LoopFinished(p) => Len(attempts[p]) * limit >= n
        /\ n = 0 => /\ attempts[p] = <<>>
                    /\ \A k \in 1..Len(calls[p]) :
                         calls[p][k].op \notin {"Create", "Update"}

\* the first batch failed and the second one was still attempted, and
\* succeeded
C7_Witness ==
  \E p \in Procs :
    /\ LoopFinished(p)
    /\ Len(attempts[p]) = 2
    /\ attempts[p][1].err = "StoreError"
    /\ attempts[p][2].err = NoErr

\* the store and directory calls issued during the k-th attempt of p
AttemptCalls(p, k) ==
  SubSeq(calls[p], attempts[p][k].firstCall,
         IF k < Len(attempts[p]) THEN attempts[p][k + 1].firstCall - 1
         ELSE Len(calls[p]))

InCreateRenovaterJob(p) ==
  pc[p] \in {"createSecret", "createConfigMap", "createJob",
             "updateSecret", "updateConfigMap"}

\* decimal text of an installation id below 100
IdText(n) ==
  LET D == <<"0", "1", "2", "3", "4", "5", "6", "7", "8", "9">>
  IN  IF n < 10 THEN D[n + 1] ELSE D[(n \div 10) + 1] \o D[(n % 10) + 1]

RECURSIVE CommandLine(_)
CommandLine(batch) ==
  LET one == "RENOVATE_TOKEN=$TOKEN_" \o IdText(batch[1].id)
               \o " RENOVATE_CONFIG_FILE=/configs/" \o IdText(batch[1].id)
               \o ".js renovate"
  IN  IF Len(batch) = 1 THEN one ELSE one \o "; " \o CommandLine(Tail(batch))

\* the repository list read back from a generated document
DocumentRepositories(doc) ==
  [k \in 1..Len(doc.repositories) |->
     [Repository |-> doc.repositories[k].repository,
      BaseBranches |-> IF "baseBranches" \in DOMAIN doc.repositories[k]
                       THEN doc.repositories[k].baseBranches ELSE <<>>]]

ArtifactMatchesBatch(batch, s, c, j) ==
  /\ Cardinality(DOMAIN s.StringData) = Len(batch)
  /\ Cardinality(DOMAIN c.Data) = Len(batch)
  /\ \A k \in 1..Len(batch) :
       /\ IdText(batch[k].id) \in DOMAIN s.StringData
       /\ s.StringData[IdText(batch[k].id)] = batch[k].token
       /\ (IdText(batch[k].id) \o ".js") \in DOMAIN c.Data
       /\ DocumentRepositories(c.Data[IdText(batch[k].id) \o ".js"])
            = batch[k].repositories
  /\ j.Container.Command = <<"bash", "-c", CommandLine(batch)>>

\* C8: the artifact of a non-empty batch holds one credential entry, one
\* configuration entry and one command per installation: key `id` with the
\* installation's token, key `id.js` with exactly its matched repositories
\* in order, and the commands in batch order, the i-th naming TOKEN_id and
\* /configs/id.js of the i-th installation.  It holds for the objects
\* CreateRenovaterJob builds and for the ones it has stored.
C8_ArtifactPerInstallation ==
  \A p \in Procs :
    /\ InCreateRenovaterJob(p) =>
         /\ installations[p] # <<>>
         /\ ArtifactMatchesBatch(installations[p], secret[p], configMap[p], job[p])
    /\ \A k \in 1..Len(attempts[p]) :
         attempts[p][k].err = NoErr =>
           LET n == attempts[p][k].name
           IN  ArtifactMatchesBatch(attempts[p][k].batch,
                                    secrets[n], configMaps[n], jobs[n])

\* an artifact for a batch of two installations with different repository
\* lists was built and stored
C8_Witness ==
  \E p \in Procs : \E k \in 1..Len(attempts[p]) :
    /\ attempts[p][k].err = NoErr
    /\ Len(attempts[p][k].batch) = 2
    /\ attempts[p][k].batch[1].repositories # attempts[p][k].batch[2].repositories
    /\ attempts[p][k].batch[1].token # attempts[p][k].batch[2].token

OwnedBy(object, owner) ==
  \E k \in 1..Len(object.OwnerReferences) :
    /\ object.OwnerReferences[k].Kind = "Job"
    /\ object.OwnerReferences[k].Name = owner.Name
    /\ object.OwnerReferences[k].UID = owner.UID

C9_State ==
  \A p \in Procs : \A k \in 1..Len(attempts[p]) :
    LET cs == AttemptCalls(p, k)
        n == attempts[p][k].name
    IN  /\ \A j \in 1..Len(cs) :
             /\ (cs[j].op = "Update" /\ cs[j].kind = "Secret") =>
                  /\ j = 4
                  /\ cs[3] = Call("Create", "Job", cs[j].name, NoErr)
             /\ (cs[j].op = "Update" /\ cs[j].kind = "ConfigMap") =>
                  /\ j = 5
                  /\ cs[3] = Call("Create", "Job", cs[j].name, NoErr)
                  /\ cs[4] = Call("Update", "Secret", cs[j].name, NoErr)
        /\ attempts[p][k].err = NoErr =>
             /\ n \in DOMAIN secrets /\ n \in DOMAIN configMaps /\ n \in DOMAIN jobs
             /\ OwnedBy(secrets[n], jobs[n])
             /\ OwnedBy(configMaps[n], jobs[n])

C9_Step ==
  /\ \A n \in (DOMAIN secrets') \ (DOMAIN secrets) : secrets'[n].OwnerReferences = <<>>
  /\ \A n \in (DOMAIN configMaps') \ (DOMAIN configMaps) :
       configMaps'[n].OwnerReferences = <<>>

\* C9: no owner reference is set when the credential and configuration
\* objects are created; the ownership updates are issued only after the job
\* was created, credential first, then configuration; and when
\* CreateRenovaterJob returns nil both objects are owned by the job of the
\* same artifact.
C9_OwnershipAfterJob == [](C9_State) /\ [][C9_Step]_vars

\* CreateRenovaterJob returned nil and both objects carry the job as owner
C9_Witness ==
  \E p \in Procs : \E k \in 1..Len(attempts[p]) :
    /\ attempts[p][k].err = NoErr
    /\ attempts[p][k].name \in DOMAIN jobs
    /\ OwnedBy(secrets[attempts[p][k].name], jobs[attempts[p][k].name])
    /\ OwnedBy(configMaps[attempts[p][k].name], jobs[attempts[p][k].name])

C10_State ==
  \A p \in Procs : \A k \in 1..Len(attempts[p]) :
    LET cs == AttemptCalls(p, k)
    IN  /\ \A j \in 1..Len(cs) :
             /\ cs[j].err # NoErr =>
                  /\ j = Len(cs)
                  /\ attempts[p][k].err = cs[j].err
             /\ (cs[j].op = "Create" /\ cs[j].err = NoErr) =>
                  cs[j].name \in DOMAIN (CASE cs[j].kind = "Secret" -> secrets
                                           [] cs[j].kind = "ConfigMap" -> configMaps
                                           [] cs[j].kind = "Job" -> jobs)
        /\ attempts[p][k].err \notin {NoErr, "running"} => Len(cs) < 5 \/ cs[5].err # NoErr

C10_Step ==
  /\ DOMAIN secrets \subseteq DOMAIN secrets'
  /\ DOMAIN configMaps \subseteq DOMAIN configMaps'
  /\ DOMAIN jobs \subseteq DOMAIN jobs'
  /\ \A p \in Procs :
       (/\ attempts[p] # <<>>
        /\ Len(attempts'[p]) = Len(attempts[p])
        /\ attempts[p][Len(attempts[p])].err = "running"
        /\ attempts'[p][Len(attempts[p])].err \notin {NoErr, "running"})
       => /\ secrets' = secrets
          /\ configMaps' = configMaps
          /\ jobs' = jobs

\* C10: a failed creation or ownership update is the last call of its
\* batch and its error is what CreateRenovaterJob returns; the step that
\* fails leaves the store as it was, and no object is ever removed.
C10_AbortWithoutRollback == [](C10_State) /\ [][C10_Step]_vars

\* the job creation failed and the credential and configuration objects
\* created before it are still stored
C10_Witness ==
  \E p \in Procs : \E k \in 1..Len(attempts[p]) :
    /\ attempts[p][k].err = "StoreError"
    /\ Len(AttemptCalls(p, k)) = 3
    /\ attempts[p][k].name \in DOMAIN secrets
    /\ attempts[p][k].name \in DOMAIN configMaps
    /\ attempts[p][k].name \notin DOMAIN jobs
    /\ pc[p] = "done"

\* the read failures of a reconciliation
CredentialFetchFailed(p) ==
  /\ calls[p] # <<>>
  /\ calls[p][1].op = "Get"
  /\ calls[p][1].err \notin {NoErr, "NotFound"}
DirectoryCallFailed(p) ==
  \E k \in 1..Len(calls[p]) :
    calls[p][k].op = "GetInstallations" /\ calls[p][k].err # NoErr
ComponentListFailed(p) ==
  \E k \in 1..Len(calls[p]) : calls[p][k].op = "List" /\ calls[p][k].err # NoErr
NoArtifactCall(p) ==
  \A k \in 1..Len(calls[p]) : calls[p][k].op \notin {"Create", "Update"}

\* C11 as stated: after a failed credential fetch or a failed component
\* listing Reconcile creates nothing and returns no error, and only a
\* failed directory call is returned as an error.
C11_OnlyDirectoryErrorReturned ==
  \A p \in Procs : pc[p] = "done" =>
    /\ (CredentialFetchFailed(p) \/ ComponentListFailed(p)) =>
         (NoArtifactCall(p) /\ retErr[p] = NoErr)
    /\ retErr[p] # NoErr => DirectoryCallFailed(p)

\* C11, amended: a failed credential fetch creates nothing and returns no
\* error; a failed component listing creates nothing and returns the
\* listing error without a requeue delay; the directory call and the
\* component listing are the only reads whose failure is returned.
C11_ReadFailures ==
  \A p \in Procs : pc[p] = "done" =>
    /\ CredentialFetchFailed(p) =>
         /\ NoArtifactCall(p)
         /\ retErr[p] = NoErr
         /\ result[p].RequeueAfter = 0
    /\ ComponentListFailed(p) =>
         /\ NoArtifactCall(p)
         /\ retErr[p] = "ListError"
         /\ result[p].RequeueAfter = 0
    /\ retErr[p] # NoErr <=> (DirectoryCallFailed(p) \/ ComponentListFailed(p))

\* a reconciliation returned the error of the component listing
C11_Witness ==
  \E p \in Procs :
    pc[p] = "done" /\ ComponentListFailed(p) /\ retErr[p] = "ListError"

\* ---------------------------------------------------------------------
\* C12: the orchestrator is invoked only by create and update events of the
\* record in the designated namespace with the designated name: every
\* request on the work queue and every request being reconciled is for that
\* record, a reconciliation starts only by taking a queued request, an event
\* that is a create or update of that record enqueues its request, and every
\* other event (delete, generic, other namespace or name) leaves the queue
\* and every reconciliation as they were.
Designated(o) ==
  o.Namespace = buildServiceNamespaceName /\ o.Name = buildPipelineSelectorResourceName
Triggers(e) == e.Type \in {"Create", "Update"} /\ Designated(e)
C12_State ==
  /\ \A r \in queue : Designated(r)
  /\ \A p \in Procs : pc[p] # "idle" => Designated(request[p])
C12_Step ==
  /\ nEvents' # nEvents =>
       /\ pc' = pc /\ request' = request
       /\ queue' = IF Triggers(lastEvent')
                   THEN queue \cup {[Namespace |-> lastEvent'.Namespace,
                                     Name |-> lastEvent'.Name]}
                   ELSE queue
  /\ \A p \in Procs : pc[p] = "idle" /\ pc'[p] # "idle" =>
       /\ request'[p] \in queue
       /\ request'[p] \notin queue'
\* C12: only create and update events of the designated record enqueue a
\* request, and only a queued request starts a reconciliation
C12_EventFilter == [](C12_State) /\ [][C12_Step]_vars
\* a create event started a reconciliation, and a delete or generic event or
\* an event of another object delivered meanwhile has enqueued nothing
C12_Witness ==
  /\ pc["r1"] = "loop" /\ Designated(request["r1"])
  /\ nEvents = 2 /\ ~Triggers(lastEvent) /\ queue = {}

\* ---------------------------------------------------------------------
\* C13: every key of the tracked-repository mapping is normalized: it has
\* no trailing slash and no `.git` suffix, whatever suffix the Git source
\* URL of the component carries.
HasSuffix(s, suffix) ==
  Len(s) >= Len(suffix) /\ SubSeq(s, Len(s) - Len(suffix) + 1, Len(s)) = suffix
Normalized(url) == ~HasSuffix(url, <<"/">>) /\ ~HasSuffix(url, <<".", "g", "i", "t">>)
\* C13: no key of the mapping ends in a slash or in `.git`
C13_KeysNormalized ==
  \A p \in Procs : MatchDone(p) =>
    \A url \in DOMAIN componentUrlToBranchMap[p] : Normalized(url)

\* ---------------------------------------------------------------------
\* C14: the base-branch set of a matched repository is determined by the
\* last component, in component-list order, whose normalized Git URL equals
\* the HTML URL of the repository: exactly its revision when that is
\* non-empty, otherwise empty; the set never has more than one entry, and
\* components without a Git source contribute nothing to the mapping.
NormalizedURL(url) == TrimSuffix(TrimSuffix(url, <<".", "g", "i", "t">>), <<"/">>)
ComponentsOf(p, url) ==
  {k \in 1..Len(componentList[p]) :
     /\ ~componentList[p][k].GitSource.IsNil
     /\ NormalizedURL(componentList[p][k].GitSource.URL) = url}
LastOf(S) == CHOOSE k \in S : \A j \in S : j <= k
\* C14: the last component of a URL decides the base-branch set, which has
\* at most one entry
C14_LastComponentDecides ==
  \A p \in Procs : MatchDone(p) =>
    /\ DOMAIN componentUrlToBranchMap[p] =
         {NormalizedURL(componentList[p][k].GitSource.URL) :
            k \in {j \in 1..Len(componentList[p]) : ~componentList[p][j].GitSource.IsNil}}
    /\ \A a \in 1..Len(installationsToUpdate[p]) :
         LET m == installationsToUpdate[p][a]
         IN  \A b \in 1..Len(m.repositories) :
               \E g \in 1..Len(githubAppInstallations[p]) :
                 LET inst == githubAppInstallations[p][g]
                 IN  /\ inst.ID = m.id
                     /\ \E r \in 1..Len(inst.Repositories) :
                          LET S == ComponentsOf(p, inst.Repositories[r].HTMLURL)
                          IN  /\ inst.Repositories[r].FullName = m.repositories[b].Repository
                              /\ S # {}
                              /\ LET rev == componentList[p][LastOf(S)].GitSource.Revision
                                 IN  m.repositories[b].BaseBranches =
                                       IF rev # "" THEN <<rev>> ELSE <<>>
                              /\ Len(m.repositories[b].BaseBranches) <= 1
\* two components share a normalized URL and differ in their revision, a
\* component has no Git source or another URL, and the repository is matched
C14_Witness ==
  \E p \in Procs :
    /\ MatchDone(p)
    /\ \E a \in 1..Len(installationsToUpdate[p]) :
         \E g \in 1..Len(githubAppInstallations[p]) :
           \E r \in 1..Len(githubAppInstallations[p][g].Repositories) :
             LET S == ComponentsOf(p, githubAppInstallations[p][g].Repositories[r].HTMLURL)
             IN  /\ githubAppInstallations[p][g].ID = installationsToUpdate[p][a].id
                 /\ \E j, k \in S :
                      /\ j < k
                      /\ componentList[p][j].GitSource.URL # componentList[p][k].GitSource.URL
                      /\ componentList[p][j].GitSource.Revision = "main"
                      /\ componentList[p][k].GitSource.Revision = ""

\* ---------------------------------------------------------------------
\* C15: every job created by CreateRenovaterJob mounts the generated
\* configuration volume read-only and exposes every credential entry as an
\* environment variable under the common prefix, so that the token of each
\* installation of its batch is the variable TOKEN_{installation id}.
\* the mounts of job j that mount its config map volume
ConfigMounts(j) ==
  {m \in {j.Container.VolumeMounts[k] : k \in 1..Len(j.Container.VolumeMounts)} :
     \E v \in 1..Len(j.Volumes) :
       j.Volumes[v].Name = m.Name /\ j.Volumes[v].ConfigMap = j.Name}
\* the environment the container of job j receives from its EnvFrom sources
ContainerEnv(j) ==
  UNION {{<<j.Container.EnvFrom[k].Prefix \o key,
            secrets[j.Container.EnvFrom[k].SecretRef].StringData[key]>> :
            key \in DOMAIN secrets[j.Container.EnvFrom[k].SecretRef].StringData} :
         k \in {x \in 1..Len(j.Container.EnvFrom) :
                  j.Container.EnvFrom[x].SecretRef \in DOMAIN secrets}}
\* the k-th attempt of p has created its job
JobCreatedBy(p, k) ==
  \E c \in 1..Len(AttemptCalls(p, k)) :
    AttemptCalls(p, k)[c] = Call("Create", "Job", attempts[p][k].name, NoErr)
TokensAddressable(p) ==
  \A k \in 1..Len(attempts[p]) :
    JobCreatedBy(p, k) =>
      LET j == jobs[attempts[p][k].name]
      IN  /\ \A x \in 1..Len(attempts[p][k].batch) :
               <<"TOKEN_" \o IdText(attempts[p][k].batch[x].id),
                 attempts[p][k].batch[x].token>> \in ContainerEnv(j)
          /\ ContainerEnv(j) =
               {<<"TOKEN_" \o key, secrets[j.Name].StringData[key]>> :
                  key \in DOMAIN secrets[j.Name].StringData}
\* C15: the configuration volume is mounted read-only and the tokens are
\* addressable as TOKEN_{installation id}
C15_ReadOnlyMountAndTokenEnv ==
  \A p \in Procs :
    /\ \A k \in 1..Len(attempts[p]) :
         JobCreatedBy(p, k) =>
           LET j == jobs[attempts[p][k].name]
           IN  ConfigMounts(j) # {} /\ \A m \in ConfigMounts(j) : m.ReadOnly
    /\ TokensAddressable(p)
\* C15 as the code has it: the configuration volume is mounted at /configs and
\* the mount does not ask for read-only; the tokens are addressable as
\* TOKEN_{installation id}
C15_MountAndTokenEnv ==
  \A p \in Procs :
    /\ \A k \in 1..Len(attempts[p]) :
         JobCreatedBy(p, k) =>
           LET j == jobs[attempts[p][k].name]
           IN  /\ ConfigMounts(j) # {}
               /\ \A m \in ConfigMounts(j) : m.MountPath = "/configs" /\ ~m.ReadOnly
    /\ TokensAddressable(p)
\* a job for a batch of two installations is in the store
C15_Witness ==
  \E p \in Procs : \E k \in 1..Len(attempts[p]) :
    /\ JobCreatedBy(p, k)
    /\ Len(attempts[p][k].batch) = 2
    /\ Cardinality(ContainerEnv(jobs[attempts[p][k].name])) = 2

\* ---------------------------------------------------------------------
\* C16: artifact names are unique per creation: any two invocations of
\* CreateRenovaterJob that build an artifact, in the same reconciliation or
\* in different ones, within the same second or not, use different names,
\* and no creation step fails because the name is already taken.
C16_NamesUnique ==
  /\ \A p, q \in Procs :
       \A k \in 1..Len(attempts[p]), l \in 1..Len(attempts[q]) :
         (<<p, k>> # <<q, l>> /\ attempts[p][k].name # "")
           => attempts[p][k].name # attempts[q][l].name
  /\ \A p \in Procs : \A c \in 1..Len(calls[p]) :
       calls[p][c].op = "Create" => calls[p][c].err # "AlreadyExists"

\* ---------------------------------------------------------------------
\* C17: config generation is deterministic in its two arguments: any two
\* calls of generateConfigJS with the same slug and the same repository
\* list return the identical document, whatever happens between the calls.
\* the calls of generateConfigJS whose document reached the store: slug,
\* repository list and the document returned
GeneratedDocuments ==
  UNION {UNION {{[slug |-> slug[p],
                  repositories |-> attempts[p][k].batch[x].repositories,
                  pattern |-> attempts[p][k].pattern,
                  document |-> configMaps[attempts[p][k].name]
                                 .Data[IdText(attempts[p][k].batch[x].id) \o ".js"]] :
                   x \in 1..Len(attempts[p][k].batch)} :
                k \in {a \in 1..Len(attempts[p]) :
                         \E c \in 1..Len(AttemptCalls(p, a)) :
                           AttemptCalls(p, a)[c] =
                             Call("Create", "ConfigMap", attempts[p][a].name, NoErr)}} :
         p \in Procs}
\* C17: the same slug and repository list give the identical document
C17_DeterministicInArguments ==
  \A g, h \in GeneratedDocuments :
    (g.slug = h.slug /\ g.repositories = h.repositories) => g.document = h.document
\* the document without its two pattern entries
WithoutPatterns(document) ==
  [document EXCEPT !.matchPackagePatterns = "", !.matchDepPatterns = ""]
\* C17 as the code has it: the document is determined by the slug, the
\* repository list and the value RENOVATE_PATTERN held at the call, which
\* the two pattern entries of the document carry (the default for an empty
\* value); nothing else of the document depends on the environment
C17_DeterministicInArgumentsAndPattern ==
  /\ \A g, h \in GeneratedDocuments :
       (g.slug = h.slug /\ g.repositories = h.repositories) =>
         /\ WithoutPatterns(g.document) = WithoutPatterns(h.document)
         /\ g.pattern = h.pattern => g.document = h.document
  /\ \A g \in GeneratedDocuments :
       LET renovatePattern == IF g.pattern = "" THEN DefaultRenovateMatchPattern
                              ELSE g.pattern
       IN  /\ g.document.matchPackagePatterns = renovatePattern
           /\ g.document.matchDepPatterns = renovatePattern
\* two documents were generated from the same slug and repository list
\* under different values of RENOVATE_PATTERN
C17_Witness ==
  \E g, h \in GeneratedDocuments :
    /\ g.slug = h.slug /\ g.repositories = h.repositories
    /\ g.pattern # h.pattern

\* ---------------------------------------------------------------------
\* C18: in every reachable state, a job object exists in the store only if
\* the credential object and the configuration object of the same name were
\* both created successfully before it in the same CreateRenovaterJob
\* invocation, in the order credential, configuration, job; both are still
\* stored.
CreatedInOrder(p, k, n) ==
  LET cs == AttemptCalls(p, k)
  IN  \E a, b, c \in 1..Len(cs) :
        /\ a < b /\ b < c
        /\ cs[a] = Call("Create", "Secret", n, NoErr)
        /\ cs[b] = Call("Create", "ConfigMap", n, NoErr)
        /\ cs[c] = Call("Create", "Job", n, NoErr)
        /\ \A x \in 1..c : cs[x].err = NoErr
\* C18: a stored job was created after the secret and the config map of its
\* name, by the same invocation
C18_JobOnlyAfterSecretAndConfigMap ==
  /\ \A n \in DOMAIN jobs :
       /\ n \in DOMAIN secrets /\ n \in DOMAIN configMaps
       /\ \E p \in Procs : \E k \in 1..Len(attempts[p]) :
            attempts[p][k].name = n /\ CreatedInOrder(p, k, n)
  /\ \A p \in Procs : \A c \in 1..Len(calls[p]) :
       (calls[p][c].op = "Create" /\ calls[p][c].kind = "Job") =>
         /\ c > 2
         /\ calls[p][c - 2] = Call("Create", "Secret", calls[p][c].name, NoErr)
         /\ calls[p][c - 1] = Call("Create", "ConfigMap", calls[p][c].name, NoErr)
\* a job is stored, and an invocation whose configuration object could not
\* be created has returned without creating a job
C18_Witness ==
  /\ jobs # EmptyMap
  /\ \E p \in Procs : \E k \in 1..Len(attempts[p]) :
       /\ attempts[p][k].err \notin {NoErr, "running"}
       /\ Len(AttemptCalls(p, k)) = 2
       /\ attempts[p][k].name \in DOMAIN secrets
       /\ attempts[p][k].name \notin DOMAIN jobs

\* ---------------------------------------------------------------------
\* C19: a reconciliation never writes to anything it did not create: it
\* issues no delete, no create or update of a component record, of the
\* application-credential secret or of the trigger record, and every update
\* call targets a credential or configuration object that the same
\* CreateRenovaterJob invocation created successfully; stored objects
\* change only by such an update, and no stored job changes.  This holds
\* with two reconciliations at a time, also when both pick the same name.
C19_State ==
  \A p \in Procs :
    /\ \A c \in 1..Len(calls[p]) :
         /\ calls[p][c].op \in {"Get", "Event", "GetInstallations", "List", "Create", "Update"}
         /\ calls[p][c].op \in {"Create", "Update"} =>
              /\ calls[p][c].kind \in {"Secret", "ConfigMap", "Job"}
              /\ calls[p][c].name \notin {PipelinesAsCodeSecretName,
                                          buildPipelineSelectorResourceName}
         /\ calls[p][c].op = "Update" =>
              \E k \in 1..Len(attempts[p]) : \E u \in 1..Len(AttemptCalls(p, k)) :
                /\ attempts[p][k].firstCall + u - 1 = c
                /\ calls[p][c].kind \in {"Secret", "ConfigMap"}
                /\ calls[p][c].name = attempts[p][k].name
                /\ \E a \in 1..(u - 1) :
                     AttemptCalls(p, k)[a] =
                       Call("Create", calls[p][c].kind, calls[p][c].name, NoErr)
C19_Step ==
  /\ \A n \in DOMAIN secrets :
       /\ n \in DOMAIN secrets'
       /\ secrets'[n] # secrets[n] =>
            \E p \in Procs : /\ pc[p] = "updateSecret" /\ name[p] = n
                             /\ secret[p].UID = secrets[n].UID
                             /\ secrets'[n].UID = secrets[n].UID
  /\ \A n \in DOMAIN configMaps :
       /\ n \in DOMAIN configMaps'
       /\ configMaps'[n] # configMaps[n] =>
            \E p \in Procs : /\ pc[p] = "updateConfigMap" /\ name[p] = n
                             /\ configMap[p].UID = configMaps[n].UID
                             /\ configMaps'[n].UID = configMaps[n].UID
  /\ \A n \in DOMAIN jobs : n \in DOMAIN jobs' /\ jobs'[n] = jobs[n]
\* C19: no delete, no write to foreign records, updates only of objects the
\* same invocation created
C19_WritesOnlyOwnObjects == [](C19_State) /\ [][C19_Step]_vars
\* both reconciliations picked the same name: one created and updated its
\* objects, the other was refused at its first creation
C19_Witness ==
  \E p, q \in Procs :
    /\ p # q
    /\ attempts[p] # <<>> /\ attempts[q] # <<>>
    /\ attempts[p][1].name = attempts[q][1].name
    /\ attempts[p][1].err = NoErr
    /\ attempts[q][1].err = "AlreadyExists"
    /\ \E c \in 1..Len(calls[p]) : calls[p][c].op = "Update" /\ calls[p][c].err = NoErr

\* ---------------------------------------------------------------------
\* C20: every reconciliation whose store and directory calls return
\* terminates: the effective batch limit is at least 1 for every value of
\* the environment, the loop index strictly increases, and the loop runs
\* at most ceil(n / limit) iterations over n matched installations.
LimitRead(p) == pc[p] \notin {"idle", "getSecret", "getInstallations", "listComponents"}
                  /\ MatchDone(p)
CeilDiv(n, d) == (n + d - 1) \div d
C20_State ==
  \A p \in Procs : LimitRead(p) =>
    /\ installationPerJobInt[p] >= 1
    /\ Len(attempts[p]) <= CeilDiv(Len(installationsToUpdate[p]), installationPerJobInt[p])
    /\ \A k \in 1..Len(attempts[p]) :
         attempts[p][k].from = (k - 1) * installationPerJobInt[p]
C20_Step ==
  \A p \in Procs : (LimitRead(p) /\ i'[p] # i[p]) => i'[p] > i[p]
\* C20: the limit is at least 1, the index strictly increases, at most
\* ceil(n / limit) iterations, and the reconciliation returns
C20_Terminates ==
  /\ [](C20_State)
  /\ [][C20_Step]_vars
  /\ <>(pc["r1"] = "done")
\* the reconciliation has returned after two iterations over three matched
\* installations with limit 2
C20_Witness ==
  /\ pc["r1"] = "done"
  /\ Len(installationsToUpdate["r1"]) = 3
  /\ installationPerJobInt["r1"] = 2
  /\ Len(attempts["r1"]) = 2

====
